---- MODULE Spec2Model ----
(***************************************************************************)
(* rclone_python: the progress-stream decoder (extract_rclone_progress),   *)
(* the read loop (rclone_progress), the progress-task bookkeeping          *)
(* (update_tasks, complete_task), the transfer operations                 *)
(* (copy, copyto, move, moveto, sync -> _rclone_transfer_operation), the   *)
(* Config singleton with set_config_file, the installation check, the      *)
(* operations that run one command through run_rclone_cmd with the list of *)
(* remotes and the caller's args list, hash, check, a listener that        *)
(* raises, and two operations on one progress bar.                         *)
(*                                                                         *)
(* Python values are encoded as follows.                                   *)
(*   - an optional value (a dict key that may be missing, None) is a       *)
(*     sequence of length 0 or 1: None == <<>>, Some(v) == <<v>>;          *)
(*   - a float that is the quotient of two integers is the reduced         *)
(*     fraction <<numerator, denominator>>;                                *)
(*   - text is a TLA+ string, concatenated with \o.                        *)
(***************************************************************************)
EXTENDS Integers, Sequences, FiniteSets, TLC

VARIABLES
    line,            \* SpecDecode: the line handed to extract_rclone_progress
    result,          \* SpecDecode: what extract_rclone_progress did with it
    opState,         \* the operation: NotStarted, Running, Succeeded, Failed
    pc,              \* idle, loop (reading stderr), done (after EOF), aborted (exception)
    params,          \* the arguments of the call
    childState,      \* the child process: none, running, blocked_stdout, exited
    exitCode,        \* the child's exit code, meaningful once childState = exited
    linesLeft,       \* how many more stderr lines the child may still write
    stderrPipe,      \* lines written by the child to stderr and not yet read
    stdoutPipe,      \* units written by the child to stdout (never read)
    consumed,        \* the lines readline() has returned so far, in order
    tasks,           \* pbar.tasks: the rich progress tasks, in creation order
    subprocesses,    \* rclone_progress's dict name -> TaskID, as a sequence of pairs
    errors,          \* rclone_progress's list of error texts
    listenerLog,     \* what the listener was called with, and what it saw
    launched,        \* the command lines of the children the current call launched
    total_progress_id, \* rclone_progress's TaskID of the aggregate task
    pbarState,       \* the progress bar: none, started, stopped
    exc,             \* the exception the operation raised, if any
    installed,       \* whether which("rclone") finds the rclone binary
    config,          \* the class attributes of utils.Config and its one instance
    configRequest,   \* the argument of the latest set_config_file call, if any
    hashArgs,        \* SpecHash: the arguments of hash and what its child printed
    hashRet,         \* SpecHash: what hash returned or raised
    remotes,         \* the remotes of the rclone configuration, in order
    callerArgs,      \* the caller's list object that it passes as args
    peer,            \* SpecShared: a second operation on the same progress bar
    combinedFile,    \* SpecCheck: the file at the caller's combined path, if any
    checkArgs,       \* SpecCheck: the arguments of check and what its child did
    checkRet         \* SpecCheck: what check returned or raised

vars == <<line, result, opState, pc, params, childState, exitCode, linesLeft,
          stderrPipe, stdoutPipe, consumed, tasks, subprocesses, errors,
          listenerLog, launched, total_progress_id, pbarState, exc,
          installed, config, configRequest, hashArgs, hashRet,
          remotes, callerArgs, peer, combinedFile, checkArgs, checkRet>>

decodeVars == <<line, result>>
opVars == <<opState, pc, params, childState, exitCode, linesLeft, stderrPipe,
            stdoutPipe, consumed, tasks, subprocesses, errors, listenerLog,
            launched, total_progress_id, pbarState, exc,
            installed, config, configRequest, hashArgs, hashRet,
            remotes, callerArgs, peer, combinedFile, checkArgs, checkRet>>
\* the check call and the file system it reads
checkVars == <<combinedFile, checkArgs, checkRet>>
\* the process-wide state (the environment, the Config class), the hash and
\* check calls, the caller's list and the second operation
envVars == <<installed, config, configRequest, hashArgs, hashRet,
             remotes, callerArgs, peer, combinedFile, checkArgs, checkRet>>

(***************************************************************************)
(* Bounds of the model.                                                    *)
(***************************************************************************)
\* byte counts, sizes and speeds reported by the child range over 0..MaxBytes
MaxBytes == 2
\* the child writes at most MaxLines lines to stderr
MaxLines == 3
\* capacity of an OS pipe, in lines (stderr) and in units of output (stdout)
PipeCap == 2
\* the caller's args list is passed on while it holds at most MaxArgs flags
MaxArgs == 3
\* the caller's list of additional flags when it is made
CallerList == <<"--fast-list">>

(***************************************************************************)
(* Python values.                                                          *)
(***************************************************************************)
None == <<>>
Some(v) == <<v>>
IsNone(o) == o = <<>>
\* dict.get(key, default) on an optional entry
Get(o, default) == IF o = <<>> THEN default ELSE o[1]

RECURSIVE GCD(_, _)
GCD(a, b) == IF b = 0 THEN a ELSE GCD(b, a % b)

\* the float a / b (b # 0) as a reduced fraction
Div(a, b) == LET g == GCD(a, b) IN <<a \div g, b \div g>>
\* the number 0 (Python's int 0 equals the float 0.0)
Zero == <<0, 1>>

RECURSIVE Join(_, _)
\* sep.join(seq) for a sequence of strings
Join(sep, seq) ==
    IF Len(seq) = 0 THEN ""
    ELSE IF Len(seq) = 1 THEN seq[1]
    ELSE seq[1] \o sep \o Join(sep, Tail(seq))

\* sub in s, for strings
Contains(s, sub) ==
    \E i \in 1..(Len(s) - Len(sub) + 1) : SubSeq(s, i, i + Len(sub) - 1) = sub

OptBytes == {None} \cup {Some(n) : n \in 0..MaxBytes}

(***************************************************************************)
(* The lines the child can write to stderr.  A line is invalid JSON, a     *)
(* JSON value that is not an object ("scalar": a number, a list, null, a   *)
(* string), or a JSON object with the keys the wrapper looks at.           *)
(***************************************************************************)
NoStats == [totalBytes |-> None, bytes |-> None, speed |-> None, transferring |-> None]

\* the value under "stats": missing (or null), a value that is no object, an object
StatsAbsent == [kind |-> "none", dict |-> NoStats]
StatsScalar == [kind |-> "scalar", dict |-> NoStats]
StatsDict(d) == [kind |-> "dict", dict |-> d]

Item(n, s, b, v) == [name |-> n, size |-> s, bytes |-> b, speed |-> v]
Stats(t, b, v, tr) == [totalBytes |-> t, bytes |-> b, speed |-> v, transferring |-> tr]

InvalidJson == [json |-> "invalid", level |-> None, stats |-> StatsAbsent,
                object |-> None, msg |-> None]
ScalarJson == [json |-> "scalar", level |-> None, stats |-> StatsAbsent,
               object |-> None, msg |-> None]
Object(lv, st, ob, m) == [json |-> "object", level |-> lv, stats |-> st,
                          object |-> ob, msg |-> m]

Levels == {None, Some("info"), Some("error"), Some("critical"), Some("debug")}

Items == {Item(n, s, b, v) : n \in {None, Some("a"), Some("b")},
                             s \in OptBytes, b \in OptBytes, v \in {None, Some(1)}}
ItemLists == {<<>>} \cup {<<i>> : i \in Items} \cup {<<i, j>> : i \in Items, j \in Items}

ItemA == Item(Some("a"), Some(MaxBytes), Some(1), Some(1))
ItemB == Item(Some("b"), Some(0), Some(0), None)

\* every level, every shape of the stats payload and of its aggregate numbers
AggregateLines ==
    {Object(lv, st, None, None) :
        lv \in Levels,
        st \in {StatsAbsent, StatsScalar}
               \cup {StatsDict(Stats(t, b, v, tr)) :
                        t \in OptBytes, b \in OptBytes, v \in OptBytes,
                        tr \in {None, Some(<<>>), Some(<<ItemA, ItemB>>)}}}

\* 'info' lines with every list of transferring files
TransferringLines ==
    {Object(Some("info"), StatsDict(Stats(Some(MaxBytes), Some(1), Some(1), Some(tr))),
            None, None) : tr \in ItemLists}

\* error and critical lines, with and without an object and a message
ErrorLines ==
    {Object(lv, StatsAbsent, ob, m) :
        lv \in {Some("error"), Some("critical")},
        ob \in {None, Some(""), Some("f.txt")},
        m \in {None, Some("directory not found")}}

Lines == {InvalidJson, ScalarJson} \cup AggregateLines \cup TransferringLines
         \cup ErrorLines

(***************************************************************************)
(* extract_rclone_progress (utils.py:181-237).  The outcome is a return    *)
(* value (valid, dict) or an exception that leaves the function.           *)
(***************************************************************************)
NoUpdate == [tasks |-> <<>>, total |-> 0, sent |-> 0, progress |-> Zero,
             transfer_speed |-> 0, rclone_output |-> NoStats]

Returned(valid, kind, log_item, out) ==
    [raised |-> None, valid |-> valid, kind |-> kind, log_item |-> log_item,
     out |-> out]
Raised(e) ==
    [raised |-> Some(e), valid |-> FALSE, kind |-> "None", log_item |-> InvalidJson,
     out |-> NoUpdate]
\* (False, None), (False, log_item), (True, out)
ReturnIgnored == Returned(FALSE, "None", InvalidJson, NoUpdate)
ReturnError(log_item) == Returned(FALSE, "log_item", log_item, NoUpdate)
ReturnUpdate(out) == Returned(TRUE, "out", InvalidJson, out)

\* task_entry with the total read from "bytes" instead of "size"
task_entry_total_from_bytes(t) ==
    LET total == Get(t.bytes, 0)
        sent == Get(t.bytes, 0)
    IN [name |-> Get(t.name, "N/A"),
        total |-> total,
        sent |-> sent,
        progress |-> IF total # 0 THEN Div(sent, total) ELSE Zero,
        transfer_speed |-> Get(t.speed, 0)]

\* utils.py:210-222, one element of stats["transferring"]
task_entry(t) ==
    LET total == Get(t.size, 0)
        sent == Get(t.bytes, 0)
    IN [name |-> Get(t.name, "N/A"),
        total |-> total,
        sent |-> sent,
        progress |-> IF total # 0 THEN Div(sent, total) ELSE Zero,
        transfer_speed |-> Get(t.speed, 0)]

\* stats_update accepting a total of 0 (>= 0 in place of > 0)
stats_update_accepts_zero(stats) ==
    IF Get(stats.totalBytes, 0) >= 0
    THEN LET tr == Get(stats.transferring, <<>>)
             tasks_ == [i \in 1..Len(tr) |-> task_entry(tr[i])]
         IN IF IsNone(stats.bytes) \/ IsNone(stats.speed)
            THEN Raised("KeyError")
            ELSE ReturnUpdate(
                    [tasks |-> tasks_,
                     total |-> Get(stats.totalBytes, 0),
                     sent |-> stats.bytes[1],
                     progress |-> IF Get(stats.totalBytes, 0) # 0
                                  THEN Div(stats.bytes[1], stats.totalBytes[1])
                                  ELSE Zero,
                     transfer_speed |-> stats.speed[1],
                     rclone_output |-> stats])
    ELSE ReturnIgnored

\* utils.py:207-237, with stats a dict
stats_update(stats) ==
    IF Get(stats.totalBytes, 0) > 0
    THEN LET tr == Get(stats.transferring, <<>>)
             tasks_ == [i \in 1..Len(tr) |-> task_entry(tr[i])]
         IN IF IsNone(stats.bytes) \/ IsNone(stats.speed)
            THEN Raised("KeyError")
            ELSE ReturnUpdate(
                    [tasks |-> tasks_,
                     total |-> stats.totalBytes[1],
                     sent |-> stats.bytes[1],
                     progress |-> IF stats.totalBytes[1] # 0
                                  THEN Div(stats.bytes[1], stats.totalBytes[1])
                                  ELSE Zero,
                     transfer_speed |-> stats.speed[1],
                     rclone_output |-> stats])
    ELSE ReturnIgnored

extract_rclone_progress(l) ==
    IF l.json = "invalid"
    THEN \* json.loads raises ValueError, caught: stats = None
         ReturnIgnored
    ELSE IF l.json = "scalar"
    THEN \* log_item.get on a value that is no dict: AttributeError, not caught
         Raised("AttributeError")
    ELSE IF l.level # Some("info")
    THEN IF l.level \in {Some("error"), Some("critical")}
         THEN ReturnError(l)
         ELSE \* stats stays None
              ReturnIgnored
    ELSE IF l.stats.kind = "none"
    THEN ReturnIgnored
    ELSE IF l.stats.kind = "scalar"
    THEN \* stats.get on a value that is no dict: AttributeError
         Raised("AttributeError")
    ELSE stats_update(l.stats.dict)

(***************************************************************************)
(* The rich progress bar, as far as utils.py uses it: pbar.tasks is the    *)
(* list of tasks in creation order, add_task appends a task whose id is    *)
(* the number of tasks created before it, update changes the fields that   *)
(* are given (a keyword left out, None here, keeps the field).             *)
(***************************************************************************)
add_task(ts, description, total, visible) ==
    Append(ts, [id |-> Len(ts), description |-> description, completed |-> 0,
                total |-> total, visible |-> visible])

Upd(description, completed, total, visible) ==
    [description |-> description, completed |-> completed, total |-> total,
     visible |-> visible]

pbar_update(ts, task_id, u) ==
    [i \in 1..Len(ts) |->
        IF ts[i].id = task_id
        THEN [ts[i] EXCEPT !.description = Get(u.description, @),
                           !.completed = Get(u.completed, @),
                           !.total = IF IsNone(u.total) THEN @ ELSE u.total,
                           !.visible = Get(u.visible, @)]
        ELSE ts[i]]

\* utils.py:253-267
get_task(id, ts) == ts[CHOOSE i \in 1..Len(ts) : ts[i].id = id]

\* complete_task setting completed and total to 1 whatever the total was
complete_task_unit(id, ts) == pbar_update(ts, id, Upd(None, Some(1), Some(1), None))

\* utils.py:270-285: total = task.total or 1 (None and 0 both give 1)
complete_task(id, ts) ==
    LET task == get_task(id, ts)
        total == IF IsNone(task.total) \/ task.total = Some(0) THEN 1 ELSE task.total[1]
    IN pbar_update(ts, id, Upd(None, Some(total), Some(total), None))

(***************************************************************************)
(* update_tasks (utils.py:288-344).  The branch and tail marks of the      *)
(* description are written "|" and "L" here, the dash after them "-".     *)
(***************************************************************************)
Branch == "|"
TailMark == "L"

RECURSIVE Replace(_, _, _)
\* str.replace(old, new) for a one-character old
Replace(s, old, new) ==
    IF Len(s) = 0 THEN ""
    ELSE (IF SubSeq(s, 1, 1) = old THEN new ELSE SubSeq(s, 1, 1))
         \o Replace(SubSeq(s, 2, Len(s)), old, new)

\* subprocesses: Dict[str, TaskID] in insertion order
HasKey(subs, name) == \E i \in 1..Len(subs) : subs[i].name = name
IdOf(subs, name) == subs[CHOOSE i \in 1..Len(subs) : subs[i].name = name].id

\* utils.py:310-333, the body of the loop for one task of the update
update_one_task(st, task) ==
    LET known == HasKey(st.subprocesses, task.name)
        ts1 == IF known THEN st.tasks ELSE add_task(st.tasks, " ", Some(100), FALSE)
        subs1 == IF known THEN st.subprocesses
                 ELSE Append(st.subprocesses, [name |-> task.name, id |-> Len(st.tasks)])
        task_id == IdOf(subs1, task.name)
    IN [tasks |-> pbar_update(ts1, task_id,
                     Upd(Some(" " \o Branch \o "-" \o task.name),
                         Some(task.sent), Some(task.total),
                         Some(Len(subs1) > 1))),
        subprocesses |-> subs1]

RECURSIVE update_listed_tasks(_, _)
update_listed_tasks(st, list) ==
    IF Len(list) = 0 THEN st
    ELSE update_listed_tasks(update_one_task(st, Head(list)), Tail(list))

\* hide_missing leaving every task as it is
hide_missing_none(ts, subs, task_names) == ts

\* utils.py:335-338
hide_missing(ts, subs, task_names) ==
    [i \in 1..Len(ts) |->
        IF \E k \in 1..Len(subs) : subs[k].id = ts[i].id /\ subs[k].name \notin task_names
        THEN [ts[i] EXCEPT !.visible = FALSE]
        ELSE ts[i]]

\* mark_last_visible marking the task created last, visible or not
mark_last_created(ts) ==
    IF Len(ts) = 0 THEN ts
    ELSE [ts EXCEPT ![Len(ts)].description = Replace(@, Branch, TailMark)]

\* utils.py:340-344
mark_last_visible(ts) ==
    LET vis == {i \in 1..Len(ts) : ts[i].visible}
    IN IF vis = {} THEN ts
       ELSE LET last == CHOOSE i \in vis : \A j \in vis : j <= i
            IN [ts EXCEPT ![last].description = Replace(@, Branch, TailMark)]

\* update_total adding the snapshot's numbers to the task's
update_total_accumulating(ts, total_progress, update_dict) ==
    pbar_update(ts, total_progress,
        Upd(None, Some(get_task(total_progress, ts).completed + update_dict.sent),
            Some(Get(get_task(total_progress, ts).total, 0) + update_dict.total), None))

\* utils.py:303-307
update_total(ts, total_progress, update_dict) ==
    pbar_update(ts, total_progress,
        Upd(None, Some(update_dict.sent), Some(update_dict.total), None))

update_tasks(ts, total_progress, update_dict, subs) ==
    LET ts0 == update_total(ts, total_progress, update_dict)
        st == update_listed_tasks([tasks |-> ts0, subprocesses |-> subs],
                                  update_dict.tasks)
        task_names == {update_dict.tasks[i].name : i \in 1..Len(update_dict.tasks)}
    IN [tasks |-> mark_last_visible(hide_missing(st.tasks, st.subprocesses, task_names)),
        subprocesses |-> st.subprocesses]

(***************************************************************************)
(* The transfer operations (rclone.py:176-345) and                         *)
(* _rclone_transfer_operation (rclone.py:710-769).                         *)
(***************************************************************************)
Operation(name, command, command_descr) ==
    [name |-> name, command |-> command, command_descr |-> command_descr]

\* rclone.py:200-208, 235-243, 270-278, 305-313, 336-345
Operations ==
    {Operation("copy", "rclone copy", "Copying"),
     Operation("copyto", "rclone copyto", "Copying"),
     Operation("move", "rclone move", "Moving"),
     Operation("moveto", "rclone moveto", "Moving"),
     Operation("sync", "rclone sync", "Syncing")}

Call(op, in_path, out_path, ignore_existing, show_progress, listener) ==
    [op |-> op, in_path |-> in_path, out_path |-> out_path,
     ignore_existing |-> ignore_existing, show_progress |-> show_progress,
     listener |-> listener]

NoCall == Call(Operation("", "", ""), "", "", FALSE, FALSE, FALSE)

\* the calls of the model: every operation with a progress bar and a listener,
\* and copy without one of them or both (sync has no ignore_existing parameter)
Calls ==
    {Call(op, "data", "box:new", FALSE, TRUE, TRUE) : op \in Operations}
    \cup {Call(Operation("copy", "rclone copy", "Copying"), "data", "box:new",
               TRUE, sp, ls) : sp \in BOOLEAN, ls \in BOOLEAN}

\* utils.py:50-55
args2string(args) == IF Len(args) > 0 THEN " " \o Join(" ", args) ELSE ""

\* utils.py:19-23
RcloneException(description, error_msg) ==
    [type |-> "RcloneException", description |-> description, error_msg |-> error_msg,
     message |-> description \o ". Error message: \n" \o error_msg]

\* an exception of Python itself that leaves the operation
PythonError(type) == [type |-> type, description |-> "", error_msg |-> "", message |-> ""]

\* transfer_command running "rclone copy" for every operation
transfer_command_copy(c, args) ==
    "rclone copy"
    \o (IF c.ignore_existing THEN " --ignore-existing" ELSE "")
    \o " \"" \o c.in_path \o "\""
    \o " \"" \o c.out_path \o "\""
    \o " --stats 0.1s --stats-unit bytes --use-json-log -v"
    \o args2string(args)

\* rclone.py:735-752, the command line handed to rclone_progress
transfer_command(c, args) ==
    c.op.command
    \o (IF c.ignore_existing THEN " --ignore-existing" ELSE "")
    \o " \"" \o c.in_path \o "\""
    \o " \"" \o c.out_path \o "\""
    \o " --stats 0.1s --stats-unit bytes --use-json-log -v"
    \o args2string(args)

\* rclone.py:733; both paths of the model are shorter than 20 characters, which
\* shorten_filepath (utils.py:100-112) returns unchanged
prog_title(c) ==
    c.op.command_descr \o " [bold magenta]" \o c.in_path \o "[/bold magenta] to [bold magenta]"
    \o c.out_path

\* transfer_failure carrying only the last captured error
transfer_failure_last_error(c, errs) ==
    RcloneException(c.op.command_descr \o " from " \o c.in_path \o " to " \o c.out_path
                    \o " failed",
                    IF Len(errs) = 0 THEN "" ELSE errs[Len(errs)])

\* rclone.py:766-769
transfer_failure(c, errs) ==
    RcloneException(c.op.command_descr \o " from " \o c.in_path \o " to " \o c.out_path
                    \o " failed",
                    Join("\n", errs))

\* error_text without the object
error_text_msg_only(update_dict) == Get(update_dict.msg, "<Error message missing>")

\* utils.py:165-167, the text kept for an error line
error_text(update_dict) ==
    LET obj == Get(update_dict.object, "")
        msg == Get(update_dict.msg, "<Error message missing>")
    IN (IF obj # "" THEN obj \o ": " ELSE "") \o msg

(***************************************************************************)
(* utils.Config (utils.py:31-47), a singleton: the class attributes        *)
(* _instance, _initialized and the instance attribute config_path.  An     *)
(* object is named by a number; created counts the objects made so far.    *)
(***************************************************************************)
ConfigClass == [instance |-> None, initialized |-> FALSE, config_path |-> None,
                created |-> 0]

\* utils.py:38-42
Config_new(cfg) ==
    IF IsNone(cfg.instance)
    THEN [cfg EXCEPT !.instance = Some(cfg.created + 1), !.created = @ + 1]
    ELSE cfg

\* Config_init assigning the path on every call
Config_init_always(cfg, config_path) ==
    [cfg EXCEPT !.config_path = config_path, !.initialized = TRUE]

\* utils.py:44-47
Config_init(cfg, config_path) ==
    IF ~cfg.initialized
    THEN [cfg EXCEPT !.config_path = config_path, !.initialized = TRUE]
    ELSE cfg

\* the call Config(config_path): __new__, then __init__ on the object it returned
Config(cfg, config_path) == Config_init(Config_new(cfg), config_path)

\* the paths set_config_file is called with
ConfigPaths == {"a.conf", "b.conf"}

\* utils.py:67-75, the command line run_rclone_cmd hands to subprocess.run
full_command(cfg, command, args) ==
    (IF ~IsNone(cfg.config_path) THEN "rclone --config=" \o cfg.config_path[1]
     ELSE "rclone")
    \o " " \o command \o " " \o args2string(args)

\* utils.py:133-135, the command line rclone_progress hands to subprocess.Popen
progress_command(cfg, command) ==
    command \o (IF ~IsNone(cfg.config_path)
                THEN " --config=\"" \o cfg.config_path[1] \o "\""
                ELSE "")

(***************************************************************************)
(* __check_installed (rclone.py:15-25) and is_installed (rclone.py:42-46). *)
(***************************************************************************)
NotInstalled ==
    [type |-> "Exception", description |-> "", error_msg |-> "",
     message |-> "rclone is not installed on this system. Please install it here: https://rclone.org/"]

\* check_installed letting every call through
check_installed_skipped(found) == TRUE

\* rclone.py:18: the wrapped function is called iff rclone is found
check_installed(found) == found

(***************************************************************************)
(* hash (rclone.py:499-591), from the result of run_rclone_cmd on: the     *)
(* exit code of "rclone hashsum" and the lines of its stdout.  A Python    *)
(* dict is the sequence of its [key, value] entries in insertion order.    *)
(***************************************************************************)
StartsWith(s, prefix) ==
    Len(s) >= Len(prefix) /\ SubSeq(s, 1, Len(prefix)) = prefix

RECURSIVE Strip(_)
\* str.strip() for blanks
Strip(s) ==
    IF Len(s) = 0 THEN s
    ELSE IF SubSeq(s, 1, 1) = " " THEN Strip(SubSeq(s, 2, Len(s)))
    ELSE IF SubSeq(s, Len(s), Len(s)) = " " THEN Strip(SubSeq(s, 1, Len(s) - 1))
    ELSE s

\* l.split(" ", maxsplit=1): one item when l has no blank, else two
Split1(l) ==
    LET blanks == {i \in 1..Len(l) : SubSeq(l, i, i) = " "}
    IN IF blanks = {} THEN <<l>>
       ELSE LET i == CHOOSE i \in blanks : \A j \in blanks : i <= j
            IN <<SubSeq(l, 1, i - 1), SubSeq(l, i + 1, Len(l))>>

\* d[key] = value
DictSet(d, key, value) ==
    IF \E i \in 1..Len(d) : d[i].key = key
    THEN [i \in 1..Len(d) |-> IF d[i].key = key THEN [key |-> key, value |-> value]
                                                ELSE d[i]]
    ELSE Append(d, [key |-> key, value |-> value])

HashReturned(kind, value, dict) ==
    [kind |-> kind, value |-> value, dict |-> dict, exc |-> None]
HashRaised(e) == [kind |-> "raise", value |-> None, dict |-> <<>>, exc |-> Some(e)]

RECURSIVE hashsums_of(_, _, _)
\* rclone.py:573-585: the dict built from the lines; raised when a line has no
\* blank, so that the unpacking of its one item raises ValueError
hashsums_of(lines, checkfile, acc) ==
    IF Len(lines) = 0 THEN [raised |-> FALSE, dict |-> acc]
    ELSE LET l == Head(lines)
         IN IF Len(l) > 0
            THEN LET items == Split1(l)
                 IN IF Len(items) # 2 THEN [raised |-> TRUE, dict |-> acc]
                    ELSE LET value == Strip(items[1])
                             key == Strip(items[2])
                         IN hashsums_of(Tail(lines), checkfile,
                                DictSet(acc, key,
                                        IF IsNone(checkfile) THEN value
                                        ELSE value = "="))
            ELSE hashsums_of(Tail(lines), checkfile, acc)

\* hash_return handing out the dict whatever its size
hash_return_always_dict(hashsums) == HashReturned("dict", None, hashsums)

\* rclone.py:587-591
hash_return(hashsums) ==
    IF Len(hashsums) = 1 THEN HashReturned("value", Some(hashsums[1].value), <<>>)
    ELSE HashReturned("dict", None, hashsums)

\* hash_exception raising on every non-zero exit code
hash_exception_any_nonzero(a) == a.returncode # 0

\* rclone.py:556-565: whether the exit code and the output make hash raise
hash_exception(a) ==
    a.returncode # 0
    /\ (IsNone(a.checkfile)
        \/ \E i \in 1..Len(a.stdout) :
              ~(StartsWith(a.stdout[i], "= ") \/ StartsWith(a.stdout[i], "* ")))

hash(a) ==
    IF hash_exception(a)
    THEN HashRaised(RcloneException("hashsum command failed on path \"" \o a.path
                                    \o "\" with hash=\"" \o a.hash \o "\"",
                                    a.stderr))
    ELSE IF ~IsNone(a.output_file)
    THEN \* the function ends without a return statement
         HashReturned("None", None, <<>>)
    ELSE LET r == hashsums_of(a.stdout, a.checkfile, <<>>)
         IN IF r.raised THEN HashRaised(PythonError("ValueError"))
            ELSE hash_return(r.dict)

\* at most MaxFiles lines are printed by "rclone hashsum"
MaxFiles == 2

HashEntry(name, value) == [name |-> name, value |-> value]
\* file names, one of them with blanks inside (src/tests/test_hash.py:39)
FileNames == {"a", "b  c", "d"}
HashValues == {"h1", "h2"}
\* markers of the checkfile mode (rclone.py:621-625 lists them for check)
Markers == {"=", "*", "+"}

\* what the child lists: per line a file with its hash or marker, or nothing
\* (a blank line); a file is listed once
Listings(values) ==
    LET entries == {None} \cup {Some(HashEntry(n, v)) : n \in FileNames, v \in values}
        seqs == UNION {[1..k -> entries] : k \in 0..MaxFiles}
    IN {ls \in seqs :
          \A i, j \in 1..Len(ls) :
             (i # j /\ ls[i] # None /\ ls[j] # None) => ls[i][1].name # ls[j][1].name}

\* the lines of the child's stdout: "<hash>  <name>", in checkfile mode
\* "<marker> <name>" (rclone.py:577-578); with --output-file the hashes go to
\* the file and stdout stays empty
hashsum_stdout(checkfile, output_file, listing) ==
    IF ~IsNone(output_file) THEN <<>>
    ELSE [i \in 1..Len(listing) |->
            IF listing[i] = None THEN ""
            ELSE listing[i][1].value
                 \o (IF IsNone(checkfile) THEN "  " ELSE " ")
                 \o listing[i][1].name]

HashCall(checkfile, output_file, returncode, listing) ==
    [hash |-> "md5", path |-> "data", checkfile |-> checkfile,
     output_file |-> output_file, returncode |-> returncode, listing |-> listing,
     stdout |-> hashsum_stdout(checkfile, output_file, listing),
     stderr |-> IF returncode = 0 THEN "" ELSE "hashsum failed"]

NoHashCall == HashCall(None, None, 0, <<>>)

HashCalls ==
    {HashCall(None, of, rc, ls) :
        of \in {None, Some("sums.txt")}, rc \in {0, 1}, ls \in Listings(HashValues)}
    \cup {HashCall(Some("check.md5"), of, rc, ls) :
        of \in {None, Some("sums.txt")}, rc \in {0, 1}, ls \in Listings(Markers)}

(***************************************************************************)
(* check (rclone.py:594-667), from the result of run_rclone_cmd and the    *)
(* combined file.  A file is the sequence of its lines, or None when there *)
(* is no file at the path.                                                 *)
(***************************************************************************)
CheckReturned(match, out) == [kind |-> "return", match |-> match, out |-> out, exc |-> None]
CheckRaised(e) == [kind |-> "raise", match |-> FALSE, out |-> <<>>, exc |-> Some(e)]

\* check_raises raising on every non-zero exit code
check_raises_any_nonzero(returncode, file) == returncode # 0

\* rclone.py:653: the exit code is non-zero and there is no combined file
check_raises(returncode, file) == returncode # 0 /\ IsNone(file)

\* rclone.py:658-662: one tuple per line of the file
check_entries(lines) == [i \in 1..Len(lines) |-> Split1(lines[i])]

\* rclone.py:651-667, with the file found at the combined path after the run
check_result(a, file) ==
    IF check_raises(a.returncode, file)
    THEN CheckRaised(RcloneException("check command failed on source: \"" \o a.source
                                     \o "\" dest: \"" \o a.dest \o "\"", a.stderr))
    ELSE IF IsNone(file)
    THEN \* read_text on a path without a file
         CheckRaised(PythonError("FileNotFoundError"))
    ELSE CheckReturned(a.returncode = 0, check_entries(file[1]))

CheckEntry(symbol, path) == [symbol |-> symbol, path |-> path]
\* the symbols of the combined file (rclone.py:621-625)
Symbols == {"=", "-", "+", "*", "!"}
\* paths, one of them with a blank inside
CheckPaths == {"a", "b c"}

\* what "rclone check" writes to the combined file: "<symbol> <path>" per file
\* (rclone.py:659), each path once, with three of the symbols
Reports ==
    LET entries == {CheckEntry(sy, pa) : sy \in Markers, pa \in CheckPaths}
        seqs == UNION {[1..k -> entries] : k \in 0..MaxFiles}
    IN {es \in seqs : \A i, j \in 1..Len(es) : i # j => es[i].path # es[j].path}

combined_lines(report) ==
    [i \in 1..Len(report) |-> report[i].symbol \o " " \o report[i].path]

\* combined: the caller's path or None (a fresh temporary directory is used);
\* written: the report the child wrote to the combined file, None when it
\* exited before it opened the file
CheckCall(combined, returncode, written) ==
    [source |-> "data", dest |-> "box:new", combined |-> combined,
     returncode |-> returncode, written |-> written,
     stderr |-> IF returncode = 0 THEN "" ELSE "check failed"]

NoCheckCall == CheckCall(None, 0, None)

\* a child that exits with 0 has written the file; one that exits with another
\* code has written it (differences found) or not (it failed before)
CheckCalls ==
    {CheckCall(co, rc, Some(re)) :
        co \in {None, Some("out.txt")}, rc \in {0, 1}, re \in Reports}
    \cup {CheckCall(co, 1, None) : co \in {None, Some("out.txt")}}

(***************************************************************************)
(* A second operation that was given the same progress bar: its aggregate  *)
(* task id, its map of subtasks, the number of snapshots it has applied.   *)
(***************************************************************************)
Peer(state, id, subs, applied) ==
    [state |-> state, total_progress_id |-> id, subprocesses |-> subs,
     applied |-> applied]
NoPeer == Peer("none", None, <<>>, 0)

(***************************************************************************)
(* The lines the child of a transfer operation writes in this model.       *)
(***************************************************************************)
SnapshotOne ==
    Object(Some("info"),
           StatsDict(Stats(Some(MaxBytes), Some(1), Some(1), Some(<<ItemA>>))),
           None, None)
SnapshotTwo ==
    Object(Some("info"),
           StatsDict(Stats(Some(MaxBytes), Some(MaxBytes), Some(1),
                           Some(<<ItemA, ItemB>>))),
           None, None)
StatsZeroTotal ==
    Object(Some("info"),
           StatsDict(Stats(Some(0), Some(1), Some(1), Some(<<ItemA>>))), None, None)
StatsNoTotal ==
    Object(None, StatsDict(Stats(None, Some(1), Some(1), Some(<<ItemA>>))), None, None)
ErrorWithObject == Object(Some("error"), StatsAbsent, Some("f.txt"),
                          Some("directory not found"))
ErrorEmptyObject == Object(Some("error"), StatsAbsent, Some(""), Some("directory not found"))
CriticalBare == Object(Some("critical"), StatsAbsent, None, None)

ItemC == Item(Some("c"), Some(1), Some(1), Some(1))

\* an accepted snapshot: aggregate total and bytes, the files in transfer
Snapshot(total, sent, items) ==
    Object(Some("info"), StatsDict(Stats(Some(total), Some(sent), Some(1), Some(items))),
           None, None)

\* snapshots over three files: none, one, two (in both orders) and three files
\* in transfer, with a larger and a smaller aggregate total
SnapshotLines ==
    {Snapshot(MaxBytes, 1, items) :
        items \in {<<>>, <<ItemA>>, <<ItemB>>, <<ItemC>>, <<ItemA, ItemB>>,
                   <<ItemB, ItemA>>, <<ItemB, ItemC>>, <<ItemA, ItemB, ItemC>>}}
    \cup {Snapshot(1, 0, items) : items \in {<<>>, <<ItemA>>, <<ItemA, ItemB>>}}

ChildLines == {InvalidJson, ScalarJson, SnapshotOne, SnapshotTwo, StatsZeroTotal,
               StatsNoTotal, ErrorWithObject, ErrorEmptyObject, CriticalBare}

(***************************************************************************)
(* Initial state: no operation called yet.                                 *)
(***************************************************************************)
OpInit ==
    /\ opState = "NotStarted"
    /\ pc = "idle"
    /\ params = NoCall
    /\ childState = "none"
    /\ exitCode = None
    /\ linesLeft = MaxLines
    /\ stderrPipe = <<>>
    /\ stdoutPipe = 0
    /\ consumed = <<>>
    /\ tasks = <<>>
    /\ subprocesses = <<>>
    /\ errors = <<>>
    /\ listenerLog = <<>>
    /\ launched = <<>>
    /\ total_progress_id = None
    /\ pbarState = "none"
    /\ exc = None
    /\ installed = TRUE
    /\ config = ConfigClass
    /\ configRequest = None
    /\ hashArgs = NoHashCall
    /\ hashRet = None
    /\ remotes = <<>>
    /\ callerArgs = CallerList
    /\ peer = NoPeer
    /\ combinedFile = None
    /\ checkArgs = NoCheckCall
    /\ checkRet = None

Init ==
    /\ line = InvalidJson
    /\ result = None
    /\ OpInit

(***************************************************************************)
(* _rclone_transfer_operation up to the read loop: the command is built,   *)
(* rclone_progress starts the progress bar, adds the aggregate task and    *)
(* launches the child (utils.py:127-145).                                  *)
(***************************************************************************)
StartOperation(c) ==
    /\ opState = "NotStarted"
    /\ params' = c
    /\ IF check_installed(installed)
       THEN /\ opState' = "Running"
            /\ pc' = "loop"
            /\ config' = Config(config, None)
            /\ tasks' = IF c.show_progress
                        THEN add_task(tasks, prog_title(c), None, TRUE)
                        ELSE tasks
            /\ total_progress_id' = IF c.show_progress THEN Some(Len(tasks)) ELSE None
            /\ pbarState' = IF c.show_progress THEN "started" ELSE pbarState
            /\ launched' = Append(launched,
                                  progress_command(config', transfer_command(c, <<>>)))
            /\ childState' = "running"
            /\ exc' = exc
       ELSE \* the wrapper raises before _rclone_transfer_operation is entered
            /\ opState' = "Failed"
            /\ pc' = "aborted"
            /\ exc' = Some(NotInstalled)
            /\ UNCHANGED <<config, tasks, total_progress_id, pbarState, launched,
                           childState>>
    /\ UNCHANGED <<line, result, exitCode, linesLeft, stderrPipe, stdoutPipe, consumed,
                   subprocesses, errors, listenerLog, installed, configRequest,
                   hashArgs, hashRet>>
    /\ UNCHANGED <<remotes, callerArgs, peer, combinedFile, checkArgs, checkRet>>

(***************************************************************************)
(* The child process: it writes lines to stderr and output to stdout, each *)
(* through a pipe of bounded capacity, and exits with some code.  A write  *)
(* to a full pipe blocks until the other end reads.  Nothing reads stdout. *)
(***************************************************************************)
ChildWriteStderr(l) ==
    /\ childState = "running"
    /\ linesLeft > 0
    /\ Len(stderrPipe) < PipeCap
    /\ stderrPipe' = Append(stderrPipe, l)
    /\ linesLeft' = linesLeft - 1
    /\ UNCHANGED <<line, result, opState, pc, params, childState, exitCode, stdoutPipe,
                   consumed, tasks, subprocesses, errors, listenerLog, launched,
                   total_progress_id, pbarState, exc>>
    /\ UNCHANGED envVars

ChildWriteStdout ==
    /\ childState = "running"
    /\ IF stdoutPipe < PipeCap
       THEN stdoutPipe' = stdoutPipe + 1 /\ childState' = childState
       ELSE stdoutPipe' = stdoutPipe /\ childState' = "blocked_stdout"
    /\ UNCHANGED <<line, result, opState, pc, params, exitCode, linesLeft, stderrPipe,
                   consumed, tasks, subprocesses, errors, listenerLog, launched,
                   total_progress_id, pbarState, exc>>
    /\ UNCHANGED envVars

ChildExit(code) ==
    /\ childState = "running"
    /\ childState' = "exited"
    /\ exitCode' = Some(code)
    /\ UNCHANGED <<line, result, opState, pc, params, linesLeft, stderrPipe, stdoutPipe,
                   consumed, tasks, subprocesses, errors, listenerLog, launched,
                   total_progress_id, pbarState, exc>>
    /\ UNCHANGED envVars

(***************************************************************************)
(* rclone_progress, one turn of the read loop (utils.py:148-168): readline *)
(* returns the next line of the child's stderr.                            *)
(***************************************************************************)
\* what the listener can see of the aggregate task when it is called
AggregateView(ts, id) ==
    IF IsNone(id) THEN None
    ELSE Some([completed |-> get_task(id[1], ts).completed,
               total |-> get_task(id[1], ts).total])

\* call_listener calling the listener for error records as well
call_listener_on_errors(log, c, r, view) ==
    IF (r.valid \/ r.kind = "log_item") /\ c.listener
    THEN Append(log, [update |-> r.out, seen |-> view])
    ELSE log

\* call_listener calling the listener only when the progress bar is shown
call_listener_with_progress(log, c, r, view) ==
    IF r.valid /\ c.listener /\ c.show_progress
    THEN Append(log, [update |-> r.out, seen |-> view])
    ELSE log

\* utils.py:153-159: the listener is called with the update of a valid line
call_listener(log, c, r, view) ==
    IF r.valid /\ c.listener
    THEN Append(log, [update |-> r.out, seen |-> view])
    ELSE log

\* utils.py:163-168: an error record is added to the list
collect_error(errs, r) ==
    IF ~r.valid /\ r.kind = "log_item"
    THEN Append(errs, error_text(r.log_item))
    ELSE errs

ReadLine ==
    /\ pc = "loop"
    /\ stderrPipe # <<>>
    /\ LET l == Head(stderrPipe)
           r == extract_rclone_progress(l)
           applied == IF r.valid /\ params.show_progress
                      THEN update_tasks(tasks, total_progress_id[1], r.out, subprocesses)
                      ELSE [tasks |-> tasks, subprocesses |-> subprocesses]
       IN /\ stderrPipe' = Tail(stderrPipe)
          /\ consumed' = Append(consumed, l)
          /\ tasks' = applied.tasks
          /\ subprocesses' = applied.subprocesses
          /\ listenerLog' = call_listener(listenerLog, params, r,
                                          AggregateView(applied.tasks, total_progress_id))
          /\ errors' = collect_error(errors, r)
          /\ IF IsNone(r.raised)
             THEN UNCHANGED <<opState, pc, exc>>
             ELSE \* the exception leaves rclone_progress and the operation
                  /\ opState' = "Failed"
                  /\ pc' = "aborted"
                  /\ exc' = Some(PythonError(r.raised[1]))
    /\ UNCHANGED <<line, result, params, childState, exitCode, linesLeft, stdoutPipe,
                   launched, total_progress_id, pbarState>>
    /\ UNCHANGED envVars

(***************************************************************************)
(* End of the stream (utils.py:170-178, rclone.py:763-769): readline       *)
(* returns b"" once the child has exited and the pipe is empty;            *)
(* process.wait() then returns the exit code at once.                      *)
(***************************************************************************)
hide_subprocesses(ts, subs) ==
    [i \in 1..Len(ts) |->
        IF \E k \in 1..Len(subs) : subs[k].id = ts[i].id
        THEN [ts[i] EXCEPT !.visible = FALSE]
        ELSE ts[i]]

ReadEOF ==
    /\ pc = "loop"
    /\ stderrPipe = <<>>
    /\ childState = "exited"
    /\ tasks' = IF params.show_progress /\ exitCode = Some(0)
                THEN hide_subprocesses(complete_task(total_progress_id[1], tasks),
                                       subprocesses)
                ELSE tasks
    /\ pbarState' = IF params.show_progress THEN "stopped" ELSE pbarState
    /\ pc' = "done"
    /\ IF exitCode = Some(0)
       THEN opState' = "Succeeded" /\ exc' = exc
       ELSE opState' = "Failed" /\ exc' = Some(transfer_failure(params, errors))
    /\ UNCHANGED <<line, result, params, childState, exitCode, linesLeft, stderrPipe,
                   stdoutPipe, consumed, subprocesses, errors, listenerLog, launched,
                   total_progress_id>>
    /\ UNCHANGED envVars

\* the wrapper and a child that logs to stderr and writes nothing to stdout
Next ==
    \/ \E c \in Calls : StartOperation(c)
    \/ \E l \in ChildLines : ChildWriteStderr(l)
    \/ \E code \in {0, 1} : ChildExit(code)
    \/ ReadLine
    \/ ReadEOF

Spec == Init /\ [][Next]_vars

\* the same with a child that also writes to stdout
NextPipes ==
    \/ \E c \in Calls : StartOperation(c)
    \/ \E l \in ChildLines : ChildWriteStderr(l)
    \/ ChildWriteStdout
    \/ \E code \in {0, 1} : ChildExit(code)
    \/ ReadLine
    \/ ReadEOF

SpecPipes == Init /\ [][NextPipes]_vars

\* an operation with a progress bar whose child writes accepted snapshots only:
\* the progress tasks under update_tasks and at the end of the stream
TasksCall == Call(Operation("copy", "rclone copy", "Copying"), "data", "box:new",
                  FALSE, TRUE, FALSE)

NextTasks ==
    \/ StartOperation(TasksCall)
    \/ \E l \in SnapshotLines : ChildWriteStderr(l)
    \/ \E code \in {0, 1} : ChildExit(code)
    \/ ReadLine
    \/ ReadEOF

SpecTasks == Init /\ [][NextTasks]_vars

(***************************************************************************)
(* A listener that raises (utils.py:157-159): the exception leaves the     *)
(* read loop and rclone_progress at the call; the statements after the     *)
(* loop (utils.py:170-178) are not reached.                                *)
(***************************************************************************)
ListenerError == PythonError("Exception")

ReadLineListenerRaises ==
    /\ pc = "loop"
    /\ stderrPipe # <<>>
    /\ params.listener
    /\ LET l == Head(stderrPipe)
           r == extract_rclone_progress(l)
           applied == IF params.show_progress
                      THEN update_tasks(tasks, total_progress_id[1], r.out, subprocesses)
                      ELSE [tasks |-> tasks, subprocesses |-> subprocesses]
       IN /\ r.valid
          /\ stderrPipe' = Tail(stderrPipe)
          /\ consumed' = Append(consumed, l)
          /\ tasks' = applied.tasks
          /\ subprocesses' = applied.subprocesses
          /\ listenerLog' = call_listener(listenerLog, params, r,
                                          AggregateView(applied.tasks, total_progress_id))
    /\ opState' = "Failed"
    /\ pc' = "aborted"
    /\ exc' = Some(ListenerError)
    /\ UNCHANGED <<line, result, params, childState, exitCode, linesLeft, stdoutPipe,
                   errors, launched, total_progress_id, pbarState>>
    /\ UNCHANGED envVars

\* operations with a listener, with and without a progress bar
ListenerCalls ==
    {Call(Operation("copy", "rclone copy", "Copying"), "data", "box:new", FALSE, sp, TRUE) :
        sp \in BOOLEAN}

NextListener ==
    \/ \E c \in ListenerCalls : StartOperation(c)
    \/ \E l \in SnapshotLines : ChildWriteStderr(l)
    \/ \E code \in {0, 1} : ChildExit(code)
    \/ ReadLine
    \/ ReadLineListenerRaises
    \/ ReadEOF

SpecListener == Init /\ [][NextListener]_vars

(***************************************************************************)
(* A second transfer operation on the same progress bar (the pbar argument *)
(* of the operations, utils.py:125, 137-141): it adds its aggregate task   *)
(* to the bar, applies its own snapshots with its own map of subtasks and  *)
(* completes its own tasks.  Its child and pipe are its own; one turn of   *)
(* its read loop on an accepted snapshot is one step here.                 *)
(***************************************************************************)
PeerCall == Call(Operation("sync", "rclone sync", "Syncing"), "data", "box:new",
                 FALSE, TRUE, FALSE)

\* the snapshots of the two operations: two files in transfer, or none
SharedLines == {Snapshot(MaxBytes, 1, <<ItemA, ItemB>>), Snapshot(MaxBytes, 1, <<>>)}

\* utils.py:137-145
PeerStart ==
    /\ peer.state = "none"
    /\ tasks' = add_task(tasks, prog_title(PeerCall), None, TRUE)
    /\ peer' = Peer("running", Some(Len(tasks)), <<>>, 0)
    /\ pbarState' = "started"
    /\ UNCHANGED <<line, result, opState, pc, params, childState, exitCode, linesLeft,
                   stderrPipe, stdoutPipe, consumed, subprocesses, errors, listenerLog,
                   launched, total_progress_id, exc, installed, config, configRequest,
                   hashArgs, hashRet, remotes, callerArgs, combinedFile, checkArgs,
                   checkRet>>

\* utils.py:148-155
PeerUpdate(l) ==
    /\ peer.state = "running"
    /\ peer.applied < MaxLines
    /\ LET r == extract_rclone_progress(l)
           applied == update_tasks(tasks, peer.total_progress_id[1], r.out,
                                   peer.subprocesses)
       IN /\ r.valid
          /\ tasks' = applied.tasks
          /\ peer' = [peer EXCEPT !.subprocesses = applied.subprocesses,
                                  !.applied = @ + 1]
    /\ UNCHANGED <<line, result, opState, pc, params, childState, exitCode, linesLeft,
                   stderrPipe, stdoutPipe, consumed, subprocesses, errors, listenerLog,
                   launched, total_progress_id, pbarState, exc, installed, config,
                   configRequest, hashArgs, hashRet, remotes, callerArgs, combinedFile,
                   checkArgs, checkRet>>

\* utils.py:170-176
PeerEOF(code) ==
    /\ peer.state = "running"
    /\ tasks' = IF code = 0
                THEN hide_subprocesses(complete_task(peer.total_progress_id[1], tasks),
                                       peer.subprocesses)
                ELSE tasks
    /\ peer' = [peer EXCEPT !.state = "done"]
    /\ pbarState' = "stopped"
    /\ UNCHANGED <<line, result, opState, pc, params, childState, exitCode, linesLeft,
                   stderrPipe, stdoutPipe, consumed, subprocesses, errors, listenerLog,
                   launched, total_progress_id, exc, installed, config, configRequest,
                   hashArgs, hashRet, remotes, callerArgs, combinedFile, checkArgs,
                   checkRet>>

NextShared ==
    \/ StartOperation(TasksCall)
    \/ \E l \in SharedLines : ChildWriteStderr(l)
    \/ \E code \in {0, 1} : ChildExit(code)
    \/ ReadLine
    \/ ReadEOF
    \/ PeerStart
    \/ \E l \in SharedLines : PeerUpdate(l)
    \/ \E code \in {0, 1} : PeerEOF(code)

SpecShared == Init /\ [][NextShared]_vars

(***************************************************************************)
(* The public operations that run one rclone command to its end through    *)
(* run_rclone_cmd (utils.py:58-97), set_config_file, and a caller that     *)
(* makes one call after the other in one process.                          *)
(***************************************************************************)
Command(name, command, flags, takes_args, remote, raise_errors) ==
    [name |-> name, command |-> command, flags |-> flags, takes_args |-> takes_args,
     remote |-> remote, raise_errors |-> raise_errors]

\* rclone.py:49-60, 63-77, 80-123, 126-139, 142-173, 348-359, 362-373, 376-388,
\* 391-419, 422-454, 457-475, 478-496, 499-549, 594-647, 670-690: the command
\* each operation runs first, the flags it appends to args for the optional
\* parameters the caller sets (count, unlink, max_depth, download, check),
\* whether it has an args parameter, and the remote it is about
Commands ==
    {Command("about", "about \"box:new\" --json", <<>>, FALSE, "", TRUE),
     Command("check_remote_existing", "listremotes", <<>>, FALSE, "box", TRUE),
     Command("create_remote", "listremotes", <<>>, FALSE, "box", TRUE),
     Command("create_remote", "listremotes", <<>>, FALSE, "home", TRUE),
     Command("mkdir", "mkdir \"box:new\"", <<>>, TRUE, "", TRUE),
     Command("cat", "cat \"box:new\"", <<"--count 1">>, TRUE, "", TRUE),
     Command("get_remotes", "listremotes", <<>>, FALSE, "", TRUE),
     Command("purge", "purge \"box:new\"", <<>>, TRUE, "", TRUE),
     Command("delete", "delete \"box:new\"", <<>>, TRUE, "", TRUE),
     Command("link", "link \"box:new\"", <<"--unlink">>, TRUE, "", TRUE),
     Command("ls", "lsjson \"box:new\"", <<"--max-depth 1">>, TRUE, "", TRUE),
     Command("size", "size \"box:new\" --json", <<>>, TRUE, "", TRUE),
     Command("tree", "tree \"box:new\"", <<>>, TRUE, "", TRUE),
     Command("hash", "hashsum \"md5\" \"data\"", <<"--download">>, TRUE, "", FALSE),
     Command("check", "check \"data\" \"box:new\"", <<"--combined \"out.txt\"">>, TRUE,
             "", FALSE),
     Command("version", "version", <<"--check">>, TRUE, "", TRUE)}

\* utils.py:87-92; the text about the arguments is no f-string
run_failure(command, args, stderr) ==
    RcloneException("Rclone \"" \o command \o "\" command failed"
                    \o (IF Len(args) > 0 THEN "with args \"{args_str}\"" ELSE ""),
                    stderr)

RECURSIVE split_whitespace(_, _, _)
\* str.split(): the runs of characters between blanks and line ends
split_whitespace(s, word, acc) ==
    IF Len(s) = 0 THEN (IF word = "" THEN acc ELSE Append(acc, word))
    ELSE LET ch == SubSeq(s, 1, 1)
             rest == SubSeq(s, 2, Len(s))
         IN IF ch \in {" ", "\n"}
            THEN split_whitespace(rest, "", IF word = "" THEN acc ELSE Append(acc, word))
            ELSE split_whitespace(rest, word \o ch, acc)

RECURSIVE listremotes_stdout(_)
\* what "rclone listremotes" prints: "<name>:" on a line of its own per remote
listremotes_stdout(rs) ==
    IF Len(rs) = 0 THEN "" ELSE Head(rs) \o ":\n" \o listremotes_stdout(Tail(rs))

\* rclone.py:348-359, from the stdout of "rclone listremotes"
get_remotes(stdout) == split_whitespace(stdout, "", <<>>)

EndsWith(s, suffix) ==
    Len(s) >= Len(suffix) /\ SubSeq(s, Len(s) - Len(suffix) + 1, Len(s)) = suffix

\* check_remote_existing looking the name up as it was given
check_remote_existing_as_given(remote_name, stdout) ==
    \E i \in 1..Len(get_remotes(stdout)) : get_remotes(stdout)[i] = remote_name

\* rclone.py:63-77, from the stdout of "rclone listremotes"
check_remote_existing(remote_name, stdout) ==
    LET name == IF EndsWith(remote_name, ":") THEN remote_name ELSE remote_name \o ":"
    IN \E i \in 1..Len(get_remotes(stdout)) : get_remotes(stdout)[i] = name

\* rclone.py:100-102, 119: the second command of create_remote
create_command(remote_name) == "config create \"" \o remote_name \o "\" \"drive\""

\* rclone.py:120-123
AlreadyExists(remote_name) ==
    [type |-> "Exception", description |-> "", error_msg |-> "",
     message |-> "A rclone remote with the name '" \o remote_name \o "' already exists!"]

\* one call of an operation of Commands: returncode is the exit code of the
\* command it runs first; fails says whether a hash or check with a non-zero
\* exit code raises (it depends on the output, rclone.py:556-571, 653-657);
\* returncode2 is, for create_remote, the exit code of "config create";
\* passes says whether the caller passes its list as args (else args is None
\* and the operation makes a new list)
RunCommand(op, returncode, fails, returncode2, passes) ==
    /\ opState = "NotStarted"
    /\ (passes /\ op.takes_args) => Len(callerArgs) + Len(op.flags) <= MaxArgs
    /\ params' = Call(Operation(op.name, op.command, ""),
                      IF op.remote = "" THEN "box:new" ELSE op.remote, "", FALSE, FALSE,
                      FALSE)
    /\ IF ~check_installed(installed)
       THEN /\ opState' = "Failed"
            /\ pc' = "aborted"
            /\ exc' = Some(NotInstalled)
            /\ UNCHANGED <<config, launched, remotes, callerArgs>>
       ELSE LET args == IF passes /\ op.takes_args THEN callerArgs \o op.flags
                        ELSE op.flags
            IN /\ config' = Config(config, None)
               /\ pc' = "returned"
               \* the flags are appended to the list object that was passed
               /\ callerArgs' = IF passes /\ op.takes_args THEN args ELSE callerArgs
               /\ IF returncode # 0 /\ (op.raise_errors \/ fails)
                  THEN /\ launched' = Append(launched,
                                             full_command(config', op.command, args))
                       /\ opState' = "Failed"
                       /\ exc' = Some(run_failure(op.command, args, "failed"))
                       /\ remotes' = remotes
                  ELSE IF op.name # "create_remote"
                  THEN /\ launched' = Append(launched,
                                             full_command(config', op.command, args))
                       /\ opState' = "Succeeded"
                       /\ exc' = exc
                       /\ remotes' = remotes
                  ELSE IF check_remote_existing(op.remote, listremotes_stdout(remotes))
                  THEN /\ launched' = Append(launched,
                                             full_command(config', op.command, args))
                       /\ opState' = "Failed"
                       /\ exc' = Some(AlreadyExists(op.remote))
                       /\ remotes' = remotes
                  ELSE /\ launched' = launched
                                      \o <<full_command(config', op.command, args),
                                           full_command(config', create_command(op.remote),
                                                        <<>>)>>
                       /\ IF returncode2 # 0
                          THEN /\ opState' = "Failed"
                               /\ exc' = Some(run_failure(create_command(op.remote), <<>>,
                                                          "failed"))
                               /\ remotes' = remotes
                          ELSE /\ opState' = "Succeeded"
                               /\ exc' = exc
                               \* rclone has added the remote to its configuration
                               /\ remotes' = Append(remotes, op.remote)
    /\ UNCHANGED <<line, result, childState, exitCode, linesLeft, stderrPipe, stdoutPipe,
                   consumed, tasks, subprocesses, errors, listenerLog,
                   total_progress_id, pbarState, installed, configRequest, hashArgs,
                   hashRet>>
    /\ UNCHANGED <<peer, combinedFile, checkArgs, checkRet>>

\* rclone.py:28-30
set_config_file(config_file) ==
    /\ opState = "NotStarted"
    /\ config' = Config(config, Some(config_file))
    /\ configRequest' = Some(config_file)
    /\ UNCHANGED <<line, result, opState, pc, params, childState, exitCode, linesLeft,
                   stderrPipe, stdoutPipe, consumed, tasks, subprocesses, errors,
                   listenerLog, launched, total_progress_id, pbarState, exc, installed,
                   hashArgs, hashRet>>
    /\ UNCHANGED <<remotes, callerArgs, peer, combinedFile, checkArgs, checkRet>>

\* rclone is installed or removed between two calls (rclone.py:42-46 asks anew)
SetInstalled(found) ==
    /\ opState = "NotStarted"
    /\ installed # found
    /\ installed' = found
    /\ UNCHANGED <<line, result, opState, pc, params, childState, exitCode, linesLeft,
                   stderrPipe, stdoutPipe, consumed, tasks, subprocesses, errors,
                   listenerLog, launched, total_progress_id, pbarState, exc, config,
                   configRequest, hashArgs, hashRet>>
    /\ UNCHANGED <<remotes, callerArgs, peer, combinedFile, checkArgs, checkRet>>

\* the call has returned or raised: its locals are gone, the caller goes on
OperationReturns ==
    /\ opState \in {"Succeeded", "Failed"}
    /\ opState' = "NotStarted"
    /\ pc' = "idle"
    /\ params' = NoCall
    /\ childState' = "none"
    /\ exitCode' = None
    /\ linesLeft' = MaxLines
    /\ stderrPipe' = <<>>
    /\ stdoutPipe' = 0
    /\ consumed' = <<>>
    /\ tasks' = <<>>
    /\ subprocesses' = <<>>
    /\ errors' = <<>>
    /\ listenerLog' = <<>>
    /\ launched' = <<>>
    /\ total_progress_id' = None
    /\ pbarState' = "none"
    /\ exc' = None
    /\ UNCHANGED <<line, result, installed, config, configRequest, hashArgs, hashRet>>
    /\ UNCHANGED <<remotes, callerArgs, peer, combinedFile, checkArgs, checkRet>>

\* the transfer operations as the caller of NextFacade calls them
FacadeTransfers == {Call(op, "data", "box:new", FALSE, TRUE, FALSE) : op \in Operations}

\* calls in any order; the child of a transfer writes nothing and exits
NextFacade ==
    \/ \E p \in ConfigPaths : set_config_file(p)
    \/ \E found \in BOOLEAN : SetInstalled(found)
    \/ \E op \in Commands, returncode \in {0, 1}, fails \in BOOLEAN,
          returncode2 \in {0, 1} :
          RunCommand(op, returncode, fails, returncode2, FALSE)
    \/ \E c \in FacadeTransfers : StartOperation(c)
    \/ \E code \in {0, 1} : ChildExit(code)
    \/ ReadEOF
    \/ OperationReturns

SpecFacade == Init /\ [][NextFacade]_vars

\* a caller that keeps one list of flags and passes it, or nothing, as args to
\* the operations that take args
NextArgs ==
    \/ \E op \in {c \in Commands : c.takes_args}, returncode \in {0, 1},
          fails \in BOOLEAN, passes \in BOOLEAN :
          RunCommand(op, returncode, fails, 0, passes)
    \/ OperationReturns

SpecArgs == Init /\ [][NextArgs]_vars

(***************************************************************************)
(* check, called again and again: with the caller's combined path the file *)
(* stays where it is after the call, with a temporary directory it is      *)
(* removed (rclone.py:637-667).                                            *)
(***************************************************************************)
\* the file at the combined path once the child has exited
file_after_run(a, before) ==
    IF IsNone(a.combined) THEN \* a fresh temporary directory
         (IF IsNone(a.written) THEN None ELSE Some(combined_lines(a.written[1])))
    ELSE IF IsNone(a.written) THEN before
    ELSE Some(combined_lines(a.written[1]))

Check(a) ==
    /\ checkArgs' = a
    /\ checkRet' = Some(check_result(a, file_after_run(a, combinedFile)))
    /\ combinedFile' = IF IsNone(a.combined) THEN combinedFile
                       ELSE file_after_run(a, combinedFile)
    /\ UNCHANGED <<line, result, opState, pc, params, childState, exitCode, linesLeft,
                   stderrPipe, stdoutPipe, consumed, tasks, subprocesses, errors,
                   listenerLog, launched, total_progress_id, pbarState, exc,
                   installed, config, configRequest, hashArgs, hashRet, remotes,
                   callerArgs, peer>>

NextCheck == \E a \in CheckCalls : Check(a)

SpecCheck == Init /\ [][NextCheck]_vars

(***************************************************************************)
(* The decoder alone: extract_rclone_progress applied to one line.         *)
(***************************************************************************)
DecodeInit ==
    /\ line \in Lines
    /\ result = None
    /\ OpInit

Decode ==
    /\ result = None
    /\ result' = Some(extract_rclone_progress(line))
    /\ UNCHANGED line
    /\ UNCHANGED opVars

SpecDecode == DecodeInit /\ [][Decode]_vars

(***************************************************************************)
(* hash alone: applied to one result of "rclone hashsum".                  *)
(***************************************************************************)
HashInit ==
    /\ line = InvalidJson
    /\ result = None
    /\ opState = "NotStarted"
    /\ pc = "idle"
    /\ params = NoCall
    /\ childState = "none"
    /\ exitCode = None
    /\ linesLeft = MaxLines
    /\ stderrPipe = <<>>
    /\ stdoutPipe = 0
    /\ consumed = <<>>
    /\ tasks = <<>>
    /\ subprocesses = <<>>
    /\ errors = <<>>
    /\ listenerLog = <<>>
    /\ launched = <<>>
    /\ total_progress_id = None
    /\ pbarState = "none"
    /\ exc = None
    /\ installed = TRUE
    /\ config = ConfigClass
    /\ configRequest = None
    /\ hashArgs \in HashCalls
    /\ hashRet = None
    /\ remotes = <<>>
    /\ callerArgs = CallerList
    /\ peer = NoPeer
    /\ combinedFile = None
    /\ checkArgs = NoCheckCall
    /\ checkRet = None

Hash ==
    /\ hashRet = None
    /\ hashRet' = Some(hash(hashArgs))
    /\ UNCHANGED <<line, result, opState, pc, params, childState, exitCode, linesLeft,
                   stderrPipe, stdoutPipe, consumed, tasks, subprocesses, errors,
                   listenerLog, launched, total_progress_id, pbarState, exc,
                   installed, config, configRequest, hashArgs>>
    /\ UNCHANGED <<remotes, callerArgs, peer, combinedFile, checkArgs, checkRet>>

SpecHash == HashInit /\ [][Hash]_vars

(***************************************************************************)
(* Properties of the decoder (checked under SpecDecode).                   *)
(***************************************************************************)
LevelOf(l) == Get(l.level, "")
IsErrorLine(l) == l.json = "object" /\ LevelOf(l) \in {"error", "critical"}
HasStatsDict(l) == l.json = "object" /\ l.stats.kind = "dict"
TotalBytesOf(l) == Get(l.stats.dict.totalBytes, 0)
\* an 'info' line with a stats payload whose totalBytes is greater than 0
IsInfoStatsLine(l) == HasStatsDict(l) /\ LevelOf(l) = "info" /\ TotalBytesOf(l) > 0
Decoded == result # None

\* C1: every line that decodes to a JSON object is classified into exactly one of
\* three outcomes: error (False, record) iff its level is error or critical;
\* progress (True, update) iff its level is info and it carries a stats payload
\* with totalBytes > 0; ignored (False, None) in every other case.
C1_ThreeOutcomes ==
    (Decoded /\ line.json = "object") =>
        LET r == result[1]
        IN /\ IsNone(r.raised)
           /\ (r.valid = FALSE /\ r.kind = "log_item" /\ r.log_item = line)
                 <=> IsErrorLine(line)
           /\ (r.valid = TRUE /\ r.kind = "out") <=> IsInfoStatsLine(line)
           /\ (r.valid = FALSE /\ r.kind = "None")
                 <=> (~IsErrorLine(line) /\ ~IsInfoStatsLine(line))

\* the fraction q is the quotient a / b
IsQuotient(q, a, b) == q[2] # 0 /\ q[1] * b = q[2] * a

\* C2: for every accepted stats record the update has total = totalBytes,
\* sent = bytes, progress = bytes / totalBytes, transfer_speed = speed,
\* rclone_output = the stats record, and one task entry per element of
\* 'transferring' in the same order, with name, total = size, sent = bytes,
\* transfer_speed = speed and progress = bytes / size, or 0 when size is 0
\* (a key the element lacks counts as 0, a missing name as "N/A").
C2_UpdateFields ==
    (Decoded /\ result[1].valid) =>
        LET out == result[1].out
            stats == line.stats.dict
            tr == Get(stats.transferring, <<>>)
        IN /\ IsInfoStatsLine(line)
           /\ Some(out.total) = stats.totalBytes
           /\ Some(out.sent) = stats.bytes
           /\ IsQuotient(out.progress, out.sent, out.total)
           /\ Some(out.transfer_speed) = stats.speed
           /\ out.rclone_output = stats
           /\ Len(out.tasks) = Len(tr)
           /\ \A i \in 1..Len(tr) :
                 LET t == out.tasks[i]
                 IN /\ t.name = (IF tr[i].name = None THEN "N/A" ELSE tr[i].name[1])
                    /\ t.total = (IF tr[i].size = None THEN 0 ELSE tr[i].size[1])
                    /\ t.sent = (IF tr[i].bytes = None THEN 0 ELSE tr[i].bytes[1])
                    /\ t.transfer_speed
                          = (IF tr[i].speed = None THEN 0 ELSE tr[i].speed[1])
                    /\ IF t.total = 0 THEN t.progress = <<0, 1>>
                       ELSE IsQuotient(t.progress, t.sent, t.total)

\* C2 witness: an accepted record with two files, the first partly sent, the
\* second of size 0
C2_Witness ==
    /\ Decoded /\ result[1].valid
    /\ Len(result[1].out.tasks) = 2
    /\ result[1].out.tasks[1].name = "a"
    /\ result[1].out.tasks[1].total = MaxBytes
    /\ result[1].out.tasks[1].sent = 1
    /\ result[1].out.tasks[1].progress # <<0, 1>>
    /\ result[1].out.tasks[2].name = "b"
    /\ result[1].out.tasks[2].total = 0
    /\ result[1].out.sent = 1 /\ result[1].out.total = MaxBytes

\* a well-formed progress record: an info line whose stats payload has
\* totalBytes > 0, bytes and speed
IsProgressRecord(l) ==
    IsInfoStatsLine(l) /\ l.stats.dict.bytes # None /\ l.stats.dict.speed # None

\* C4: decoding never raises: every line that is neither a well-formed progress
\* record nor an error event (invalid JSON, a JSON value that is no object, a
\* stats payload that is no object, an accepted stats payload without bytes or
\* speed) is returned as (False, None).
C4_DecodingNeverRaises ==
    (Decoded /\ ~IsProgressRecord(line) /\ ~IsErrorLine(line)) =>
        (IsNone(result[1].raised) /\ result[1] = ReturnIgnored)

(***************************************************************************)
(* Properties of the read loop and of the transfer operations (checked     *)
(* under Spec, C10 under SpecPipes).                                       *)
(***************************************************************************)
\* a stats line (not an error record) whose totalBytes is 0 or absent
IsNonActionable(l) == HasStatsDict(l) /\ ~IsErrorLine(l) /\ TotalBytesOf(l) = 0

\* the step of the read loop that consumes the line l
Reads(l) == pc = "loop" /\ stderrPipe # <<>> /\ Head(stderrPipe) = l
            /\ consumed' = Append(consumed, l)

\* C3: a stats line whose totalBytes is 0 or absent is not actionable:
\* extract_rclone_progress returns (False, None) for it, and the read loop
\* leaves the progress tasks (aggregate and subtasks), the name-to-id map and
\* the error list unchanged and does not call the listener.
C3_NonActionableIsNoUpdate ==
    [][\A l \in ChildLines :
          (IsNonActionable(l) /\ Reads(l)) =>
              /\ extract_rclone_progress(l) = ReturnIgnored
              /\ UNCHANGED <<tasks, subprocesses, errors, listenerLog>>
              /\ pc' = "loop"]_vars

\* C3 witness: a snapshot was applied and reported, then a stats line with
\* totalBytes 0 and one without totalBytes were read
C3_Witness ==
    /\ params.show_progress /\ params.listener
    /\ consumed = <<SnapshotTwo, StatsZeroTotal, StatsNoTotal>>
    /\ Len(listenerLog) = 1
    /\ Len(subprocesses) = 2
    /\ tasks[1].completed = MaxBytes

\* the accepted snapshots among the lines read, in reading order
AcceptedLines(seq) == SelectSeq(seq, IsProgressRecord)

\* C5: the listener is called exactly once per accepted snapshot, in reading
\* order, after the snapshot has been applied to the progress tasks (with
\* show_progress), and never for another line: at every point of the run the
\* calls are exactly the accepted snapshots read so far.
C5_ListenerOncePerSnapshot ==
    IF params.listener
    THEN LET acc == AcceptedLines(consumed)
         IN /\ Len(listenerLog) = Len(acc)
            /\ \A i \in 1..Len(acc) :
                  /\ listenerLog[i].update.rclone_output = acc[i].stats.dict
                  /\ Some(listenerLog[i].update.total) = acc[i].stats.dict.totalBytes
                  /\ Some(listenerLog[i].update.sent) = acc[i].stats.dict.bytes
                  /\ params.show_progress =>
                        listenerLog[i].seen
                           = Some([completed |-> acc[i].stats.dict.bytes[1],
                                   total |-> acc[i].stats.dict.totalBytes])
    ELSE listenerLog = <<>>

\* C5 witness: two different snapshots with an error and an ignored line around
\* them, two listener calls
C5_Witness ==
    /\ params.listener /\ params.show_progress
    /\ Len(consumed) = 3
    /\ consumed[1] = SnapshotOne /\ IsErrorLine(consumed[2]) /\ consumed[3] = SnapshotTwo
    /\ Len(listenerLog) = 2
    /\ listenerLog[1].update.sent = 1
    /\ listenerLog[2].update.sent = MaxBytes

\* the entry kept for an error line: "<object>: <msg>" when it has a (non-empty)
\* object, else "<msg>"; the placeholder when it has no msg
ErrorEntry(l) ==
    LET m == IF l.msg = None THEN "<Error message missing>" ELSE l.msg[1]
    IN IF l.object = None \/ l.object = Some("") THEN m
       ELSE l.object[1] \o ": " \o m

RECURSIVE ErrorEntries(_)
ErrorEntries(seq) ==
    IF Len(seq) = 0 THEN <<>>
    ELSE (IF IsErrorLine(Head(seq)) THEN <<ErrorEntry(Head(seq))>> ELSE <<>>)
         \o ErrorEntries(Tail(seq))

\* C6: every line of level error or critical appends exactly one entry to the
\* error list and does not stop the read loop; at every point, and so at EOF,
\* the list holds one entry per error line read, in arrival order.
C6_ErrorsCollected ==
    /\ [](errors = ErrorEntries(consumed))
    /\ [][\A l \in ChildLines :
            (IsErrorLine(l) /\ Reads(l)) =>
                (pc' = "loop" /\ errors' = Append(errors, ErrorEntry(l)))]_vars

\* C6 witness: an error, a snapshot and a second error were read, and the
\* operation has returned from the loop with both entries
C6_Witness ==
    /\ pc = "done" /\ params.listener
    /\ consumed = <<ErrorWithObject, SnapshotOne, CriticalBare>>
    /\ errors = <<"f.txt: directory not found", "<Error message missing>">>
    /\ Len(listenerLog) = 1

\* the verb that names each operation
OperationVerb(name) ==
    CASE name \in {"copy", "copyto"} -> "Copying"
      [] name \in {"move", "moveto"} -> "Moving"
      [] name = "sync" -> "Syncing"

\* the operation has read its child's stderr to EOF and collected the exit code
Finished == pc = "done"

C8_OutcomeByExitCode ==
    (opState \in {"Succeeded", "Failed"} /\ childState = "exited") =>
        /\ (opState = "Succeeded") <=> (exitCode = Some(0))
        /\ (opState = "Failed") <=> (exitCode # Some(0))

\* C9: every RcloneException raised by a failed transfer operation carries a
\* non-empty description and a non-empty error_msg, whatever the child wrote.
C9_FailureTextNonEmpty ==
    (exc # None /\ exc[1].type = "RcloneException") =>
        (Len(exc[1].description) > 0 /\ Len(exc[1].error_msg) > 0)

\* C10: no state is reachable in which the reader waits for a line on stderr
\* while the child waits for room on stdout, so that the read loop reaches EOF
\* and the operation an outcome.
C10_NoPipeDeadlock ==
    ~(pc = "loop" /\ stderrPipe = <<>> /\ childState = "blocked_stdout")

(***************************************************************************)
(* Properties of the progress tasks under update_tasks (checked under      *)
(* SpecTasks).                                                            *)
(***************************************************************************)
\* the accepted snapshots applied so far, and the latest of them
Applied == AcceptedLines(consumed)
LastSnapshot == Applied[Len(Applied)]
\* the names a snapshot lists, in order
ListedNames(l) ==
    LET tr == Get(l.stats.dict.transferring, <<>>)
    IN [i \in 1..Len(tr) |-> Get(tr[i].name, "N/A")]
NameSet(l) == {ListedNames(l)[i] : i \in 1..Len(ListedNames(l))}
TrackedNames == {subprocesses[k].name : k \in 1..Len(subprocesses)}
\* the progress task of a tracked name
SubtaskOf(name) == get_task(IdOf(subprocesses, name), tasks)
Aggregate == get_task(total_progress_id[1], tasks)

\* C11: whenever the most recent snapshot lists exactly one subtask, that subtask
\* is invisible after update_tasks has applied it, also when other names were
\* tracked by earlier snapshots and have disappeared since.
C11_SingleSubtaskInvisible ==
    (params.show_progress /\ pc = "loop" /\ Applied # <<>>
       /\ Len(ListedNames(LastSnapshot)) = 1) =>
        ~SubtaskOf(ListedNames(LastSnapshot)[1]).visible

\* C12: after a snapshot that lists two or more distinct subtasks has been
\* applied, every listed subtask is visible, also in the first snapshot in which
\* a second name appears (next to a tracked name, or two new names at once).
C12_ListedSubtasksVisible ==
    (params.show_progress /\ pc = "loop" /\ Applied # <<>>
       /\ Cardinality(NameSet(LastSnapshot)) >= 2) =>
        \A n \in NameSet(LastSnapshot) : SubtaskOf(n).visible

\* C13: the map of tracked subtasks only grows: a name is added the first time a
\* snapshot lists it and is never removed, the id bound to a name never changes,
\* distinct names have distinct ids; and after every applied snapshot each
\* tracked name that the snapshot does not list is invisible.
C13_TrackedMapGrows ==
    /\ []((params.show_progress /\ Applied # <<>>) =>
            /\ \A i \in 1..Len(Applied) : NameSet(Applied[i]) \subseteq TrackedNames
            /\ \A i, j \in 1..Len(subprocesses) :
                  i # j => /\ subprocesses[i].name # subprocesses[j].name
                           /\ subprocesses[i].id # subprocesses[j].id
            /\ \A n \in TrackedNames \ NameSet(LastSnapshot) : ~SubtaskOf(n).visible)
    /\ [][/\ Len(subprocesses') >= Len(subprocesses)
           /\ SubSeq(subprocesses', 1, Len(subprocesses)) = subprocesses]_vars

\* C13 witness: a and b listed, then b and c, then a alone: a is listed again
\* under its first id, b and c are tracked, no longer listed and invisible
C13_Witness ==
    /\ params.show_progress /\ Len(Applied) = 3
    /\ ListedNames(Applied[1]) = <<"a", "b">>
    /\ ListedNames(Applied[2]) = <<"b", "c">>
    /\ ListedNames(Applied[3]) = <<"a">>
    /\ subprocesses = <<[name |-> "a", id |-> 1], [name |-> "b", id |-> 2],
                        [name |-> "c", id |-> 3]>>
    /\ ~SubtaskOf("b").visible /\ ~SubtaskOf("c").visible
    /\ SubtaskOf("a").completed = 1

\* C14: applying a snapshot sets the aggregate task to exactly the snapshot's
\* values (completed = sent, total = total) whatever the state before; applying
\* the same snapshot again changes nothing; a smaller total overwrites a larger.
C14_AggregateIsSnapshot ==
    (params.show_progress /\ pc = "loop" /\ Applied # <<>>) =>
        LET stats == LastSnapshot.stats.dict
            again == update_tasks(tasks, total_progress_id[1],
                                  extract_rclone_progress(LastSnapshot).out, subprocesses)
        IN /\ Some(Aggregate.completed) = stats.bytes
           /\ Aggregate.total = stats.totalBytes
           /\ get_task(total_progress_id[1], again.tasks) = Aggregate

\* C14 witness: a snapshot with the larger total, then twice the same snapshot
\* with the smaller total and fewer bytes
C14_Witness ==
    /\ params.show_progress /\ pc = "loop" /\ Len(Applied) = 3
    /\ Applied[1].stats.dict.totalBytes = Some(MaxBytes)
    /\ Applied[1].stats.dict.bytes = Some(1)
    /\ Applied[2] = Applied[3]
    /\ Applied[3].stats.dict.totalBytes = Some(1)
    /\ Aggregate.total = Some(1) /\ Aggregate.completed = 0

\* C15: with show_progress, completion is applied exactly when the child exits
\* with code 0: the aggregate task then ends with completed = total (1 when no
\* total was ever observed, else the last observed total) and every tracked
\* subtask is hidden; on a non-zero exit the tasks stay as the last snapshot
\* left them.
C15_CompletionOnExitZero ==
    /\ []((Finished /\ params.show_progress) =>
            IF exitCode = Some(0)
            THEN LET total == IF Applied = <<>> THEN 1
                              ELSE LastSnapshot.stats.dict.totalBytes[1]
                 IN /\ Aggregate.completed = total
                    /\ Aggregate.total = Some(total)
                    /\ \A n \in TrackedNames : ~SubtaskOf(n).visible
            ELSE IF Applied = <<>>
                 THEN Aggregate.completed = 0 /\ Aggregate.total = None
                 ELSE /\ Some(Aggregate.completed) = LastSnapshot.stats.dict.bytes
                      /\ Aggregate.total = LastSnapshot.stats.dict.totalBytes)
    /\ [][(pc = "loop" /\ pc' = "done" /\ exitCode # Some(0)) => tasks' = tasks]_vars

\* C15 witness: two files were listed with a total of MaxBytes, then one of
\* them alone with 0 bytes of a total of 1; the child exited with 0 and the
\* aggregate is complete at the last total
C15_Witness ==
    /\ Finished /\ params.show_progress /\ exitCode = Some(0)
    /\ consumed = <<Snapshot(MaxBytes, 1, <<ItemA, ItemB>>), Snapshot(1, 0, <<ItemA>>)>>
    /\ Aggregate.completed = 1 /\ Aggregate.total = Some(1)
    /\ Len(subprocesses) = 2
    /\ \A n \in TrackedNames : ~SubtaskOf(n).visible

(***************************************************************************)
(* Properties of the commands launched (C19 under Spec).                   *)
(***************************************************************************)
\* C19: each call of copy, copyto, move, moveto or sync (with rclone installed)
\* launches exactly one child process, whose command line begins with the
\* rclone subcommand of the same name; the command is never launched a second
\* time, neither after a failure nor after a success.
C19_OneChildPerTransfer ==
    (opState # "NotStarted" /\ exc # Some(NotInstalled)
       /\ params.op.name \in {"copy", "copyto", "move", "moveto", "sync"}) =>
        /\ Len(launched) = 1
        /\ StartsWith(launched[1], "rclone " \o params.op.name \o " ")

\* C19 witness: a moveto whose child wrote error lines and exited with 1
C19_Witness ==
    /\ Finished /\ opState = "Failed" /\ exitCode = Some(1)
    /\ params.op.name = "moveto"
    /\ Len(errors) = 2
    /\ Len(launched) = 1

(***************************************************************************)
(* Properties of the configuration path and of the installation check      *)
(* (checked under SpecFacade).                                             *)
(***************************************************************************)
\* C16: set_config_file(p) changes the config file: every rclone command
\* launched by a later operation carries the config path p, for every sequence
\* of calls, also when an operation ran before set_config_file and when
\* set_config_file was called before with another path.
C16_SetConfigFileTakesEffect ==
    (configRequest # None /\ launched # <<>>) =>
        \A i \in 1..Len(launched) :
           Contains(launched[i], "--config=") /\ Contains(launched[i], configRequest[1])

C18_NotInstalledBeforeLaunch ==
    (opState # "NotStarted") =>
        IF installed
        THEN exc # Some(NotInstalled) /\ launched # <<>>
        ELSE /\ opState = "Failed" /\ exc = Some(NotInstalled)
             /\ launched = <<>> /\ childState = "none"

\* C18 witness: rclone was found by an earlier call (the singleton is
\* initialised), was removed, and a sync raises without a launch
C18_Witness ==
    /\ ~installed /\ config.initialized /\ configRequest = None
    /\ params.op.name = "sync"
    /\ opState = "Failed" /\ exc = Some(NotInstalled) /\ launched = <<>>

(***************************************************************************)
(* Properties of hash (checked under SpecHash).                            *)
(***************************************************************************)
\* the files the child listed, without the blank lines
ListedFiles == SelectSeq(hashArgs.listing, LAMBDA e : e # None)
\* the non-empty lines of the child's stdout
NonEmptyLines == SelectSeq(hashArgs.stdout, LAMBDA l : l # "")
HashReturns == hashRet # None /\ hashRet[1].kind # "raise"
\* the value hash gives for the file of a listed entry
ExpectedValue(entry) ==
    IF IsNone(hashArgs.checkfile) THEN entry.value ELSE entry.value = "="

\* C20: whenever hash returns, it returns None if output_file is set; otherwise
\* the single value itself when the output holds exactly one entry (the hash
\* string, or True / False in checkfile mode); otherwise a mapping from file name
\* to hash string, or in checkfile mode to True for "=" and False for any other
\* marker, with one key per non-empty output line.
C20_HashReturnValue ==
    HashReturns =>
        LET r == hashRet[1]
        IN IF ~IsNone(hashArgs.output_file)
           THEN r.kind = "None"
           ELSE IF Len(NonEmptyLines) = 1
           THEN r.kind = "value" /\ r.value = Some(ExpectedValue(ListedFiles[1][1]))
           ELSE /\ r.kind = "dict"
                /\ Len(r.dict) = Len(NonEmptyLines)
                /\ \A i \in 1..Len(ListedFiles) :
                      \E k \in 1..Len(r.dict) :
                         /\ r.dict[k].key = ListedFiles[i][1].name
                         /\ r.dict[k].value = ExpectedValue(ListedFiles[i][1])

\* C20 witness: checkfile mode, exit code 0, a matching file whose name holds
\* blanks and a file missing on one side: a mapping to True and False
C20_Witness ==
    /\ HashReturns
    /\ ~IsNone(hashArgs.checkfile) /\ IsNone(hashArgs.output_file)
    /\ hashArgs.stdout = <<"= b  c", "+ a">>
    /\ hashRet[1].kind = "dict"
    /\ hashRet[1].dict = <<[key |-> "b  c", value |-> TRUE], [key |-> "a", value |-> FALSE]>>

\* in checkfile mode: some line the child printed is blank or begins with a
\* marker other than "=" and "*"
UnexpectedLine ==
    /\ IsNone(hashArgs.output_file)
    /\ \E i \in 1..Len(hashArgs.listing) :
          \/ hashArgs.listing[i] = None
          \/ hashArgs.listing[i][1].value \notin {"=", "*"}

\* C21: hash raises RcloneException carrying the child's stderr when the hashsum
\* command does not succeed: without a checkfile on every non-zero exit code;
\* with a checkfile on a non-zero exit code iff some output line starts with
\* neither "= " nor "* "; a non-zero exit whose lines all have one of these
\* prefixes is returned as a result (False for "*") and is not raised.
C21_HashRaisesOnFailure ==
    (hashRet # None) =>
        LET r == hashRet[1]
            fails == hashArgs.returncode # 0
                     /\ (IsNone(hashArgs.checkfile) \/ UnexpectedLine)
        IN /\ (r.kind = "raise") <=> fails
           /\ (r.kind = "raise") =>
                 /\ r.exc[1].type = "RcloneException"
                 /\ r.exc[1].error_msg = hashArgs.stderr
           /\ (r.kind = "dict" /\ hashArgs.returncode # 0) =>
                 \A k \in 1..Len(r.dict) :
                    \E i \in 1..Len(hashArgs.listing) :
                       /\ hashArgs.listing[i] # None
                       /\ hashArgs.listing[i][1].name = r.dict[k].key
                       /\ r.dict[k].value = (hashArgs.listing[i][1].value = "=")

\* C21 witness: checkfile mode, exit code 1, one matching and one differing
\* file: returned as a mapping to True and False
C21_Witness ==
    /\ hashRet # None
    /\ ~IsNone(hashArgs.checkfile) /\ hashArgs.returncode = 1
    /\ hashArgs.stdout = <<"= a", "* d">>
    /\ hashRet[1].kind = "dict"
    /\ hashRet[1].dict = <<[key |-> "a", value |-> TRUE], [key |-> "d", value |-> FALSE]>>

(***************************************************************************)
(* Properties of check (checked under SpecCheck).                          *)
(***************************************************************************)
\* the file at the combined path when check looks for it
FileAfter ==
    IF IsNone(checkArgs.combined)
    THEN (IF IsNone(checkArgs.written) THEN None
          ELSE Some(combined_lines(checkArgs.written[1])))
    ELSE combinedFile

\* C22: check returns the pair (exit code = 0, list of (symbol, path) entries
\* read from the combined file, one per line) and raises RcloneException
\* carrying stderr iff the command exits with a non-zero code and no combined
\* file exists; a non-zero exit with a combined file present is reported as
\* (False, entries), not raised.
C22_CheckReturnsOrRaises ==
    (checkRet # None) =>
        LET r == checkRet[1]
        IN /\ (r.kind = "raise") <=> (checkArgs.returncode # 0 /\ IsNone(FileAfter))
           /\ (r.kind = "raise") =>
                 /\ r.exc[1].type = "RcloneException"
                 /\ r.exc[1].error_msg = checkArgs.stderr
           /\ (r.kind = "return") =>
                 /\ r.match = (checkArgs.returncode = 0)
                 /\ Len(r.out) = Len(FileAfter[1])
                 /\ \A i \in 1..Len(r.out) :
                       /\ Len(r.out[i]) = 2
                       /\ r.out[i][1] \in Symbols
                       /\ r.out[i][1] \o " " \o r.out[i][2] = FileAfter[1][i]
                 /\ ~IsNone(checkArgs.written) =>
                       \A i \in 1..Len(r.out) :
                          r.out[i] = <<checkArgs.written[1][i].symbol,
                                       checkArgs.written[1][i].path>>

\* C22 witness: exit code 1 and a combined file that reports a matching file
\* and a file that differs: (False, entries)
C22_Witness ==
    /\ checkRet # None /\ checkRet[1].kind = "return"
    /\ checkArgs.returncode = 1 /\ IsNone(checkArgs.combined)
    /\ checkRet[1].match = FALSE
    /\ checkRet[1].out = <<<<"=", "b c">>, <<"*", "a">>>>

\* C30: the entries check returns were written by the rclone run of that same
\* call: a call whose child exits with a non-zero code without writing the
\* combined file raises RcloneException, also when a file of an earlier call
\* still lies at the caller's combined path.
C30_NoStaleEntries ==
    (checkRet # None /\ checkArgs.returncode # 0 /\ IsNone(checkArgs.written)) =>
        /\ checkRet[1].kind = "raise"
        /\ checkRet[1].exc[1].type = "RcloneException"

(***************************************************************************)
(* Properties of the remotes (checked under SpecFacade) and of the         *)
(* caller's args list (checked under SpecArgs).                            *)
(***************************************************************************)
Configured(n) == \E i \in 1..Len(remotes) : remotes[i] = n
\* how often "config create" is among the commands of the current call
ConfigCreates(cmds) ==
    Cardinality({i \in 1..Len(cmds) : Contains(cmds[i], "config create")})
\* the step is a call of create_remote that got the list of remotes
CreatesRemote ==
    /\ opState = "NotStarted" /\ params'.op.name = "create_remote"
    /\ pc' = "returned"
    /\ exc' # Some(run_failure("listremotes", <<>>, "failed"))

\* C23: create_remote(name) runs "config create" exactly once when name is not
\* among the configured remotes, and raises the already-exists error without
\* running "config create" when it is; the existence test treats name and
\* name + ":" the same.
C23_CreateRemoteOnce ==
    /\ [](\A n \in {"box", "home", "other"} :
            /\ check_remote_existing(n, listremotes_stdout(remotes))
                  = check_remote_existing(n \o ":", listremotes_stdout(remotes))
            /\ check_remote_existing(n, listremotes_stdout(remotes)) = Configured(n))
    /\ [][CreatesRemote =>
            IF Configured(params'.in_path)
            THEN /\ exc' = Some(AlreadyExists(params'.in_path))
                 /\ opState' = "Failed"
                 /\ ConfigCreates(launched') = 0
            ELSE /\ ConfigCreates(launched') = 1
                 /\ exc' # Some(AlreadyExists(params'.in_path))]_vars

\* C23 witness: box was created after home, and a second create_remote of box
\* has raised after listing the remotes
C23_Witness ==
    /\ remotes = <<"home", "box">>
    /\ params.op.name = "create_remote" /\ params.in_path = "box"
    /\ opState = "Failed" /\ exc = Some(AlreadyExists("box"))
    /\ Len(launched) = 1

\* C29: no public operation modifies the args list passed in by the caller:
\* after ls, link, cat, hash, check or version returns, the caller's list holds
\* the same elements as before the call.
C29_CallerArgsUntouched ==
    callerArgs = CallerList

(***************************************************************************)
(* What the caller observes and what the progress bar shows (C24 under     *)
(* Spec, C25 and C26 under SpecTasks).                                     *)
(***************************************************************************)
\* the update dicts of the accepted snapshots among the lines, as decoded
ExpectedUpdates(seq) ==
    [i \in 1..Len(AcceptedLines(seq)) |->
        extract_rclone_progress(AcceptedLines(seq)[i]).out]
\* the update dicts the listener has been called with
ListenerUpdates == [i \in 1..Len(listenerLog) |-> listenerLog[i].update]

\* C24: what the listener is called with and the error list depend on the lines
\* read only, not on show_progress: the update dicts are the decoded accepted
\* snapshots, unaltered by update_tasks, and the errors are the entries of the
\* error lines, the same with and without a progress bar.
C24_ListenerIndependentOfProgress ==
    /\ errors = ErrorEntries(consumed)
    /\ params.listener => ListenerUpdates = ExpectedUpdates(consumed)

\* C24 witness: without a progress bar, the listener got the two snapshots
\* around an error line, the second one with its two tasks
C24_Witness ==
    /\ params.listener /\ ~params.show_progress
    /\ consumed = <<SnapshotOne, ErrorWithObject, SnapshotTwo>>
    /\ Len(listenerLog) = 2
    /\ Len(listenerLog[2].update.tasks) = 2
    /\ errors = <<"f.txt: directory not found">>

\* the state update_tasks leaves when the latest snapshot is applied once more
AppliedAgain ==
    update_tasks(tasks, total_progress_id[1],
                 extract_rclone_progress(LastSnapshot).out, subprocesses)

\* C25: applying the same snapshot a second time changes nothing of the
\* tracked state: aggregate, map of names, stats, visibility and marks of the
\* subtasks are as after the first application.
C25_UpdateTasksIdempotent ==
    (params.show_progress /\ pc = "loop" /\ Applied # <<>>) =>
        AppliedAgain = [tasks |-> tasks, subprocesses |-> subprocesses]

\* the visible subtasks, by position in the list of tasks
VisibleSubtasks ==
    {i \in 1..Len(tasks) :
        tasks[i].visible /\ \E k \in 1..Len(subprocesses) : subprocesses[k].id = tasks[i].id}
NameOfTask(i) ==
    subprocesses[CHOOSE k \in 1..Len(subprocesses) : subprocesses[k].id = tasks[i].id].name

\* C26: after every applied snapshot that leaves a subtask visible, the last
\* visible subtask in creation order carries the tail mark and every other
\* visible subtask the branch mark, also one that was the tail before.
C26_TailMarker ==
    (params.show_progress /\ pc = "loop" /\ Applied # <<>> /\ VisibleSubtasks # {}) =>
        \A i \in VisibleSubtasks :
            tasks[i].description
              = " " \o (IF \A j \in VisibleSubtasks : j <= i THEN TailMark ELSE Branch)
                    \o "-" \o NameOfTask(i)

\* C26 witness: b was the tail while a and b were listed; with c listed too, c
\* is the tail and b carries the branch mark again; c then disappears, and the
\* task created last is hidden while b is the tail once more
C26_Witness ==
    /\ params.show_progress /\ pc = "loop" /\ Len(Applied) = 3
    /\ ListedNames(Applied[1]) = <<"a", "b">>
    /\ ListedNames(Applied[2]) = <<"a", "b", "c">>
    /\ ListedNames(Applied[3]) = <<"a", "b">>
    /\ SubtaskOf("b").visible /\ ~SubtaskOf("c").visible
    /\ SubtaskOf("b").description = " " \o TailMark \o "-b"

(***************************************************************************)
(* Two operations on one progress bar (C27 under SpecShared) and the ways  *)
(* out of rclone_progress (C28 under SpecListener).                        *)
(***************************************************************************)
\* the ids of the tasks each operation has created
OwnIds == (IF IsNone(total_progress_id) THEN {} ELSE {total_progress_id[1]})
          \cup {subprocesses[k].id : k \in 1..Len(subprocesses)}
PeerIds == (IF IsNone(peer.total_progress_id) THEN {} ELSE {peer.total_progress_id[1]})
           \cup {peer.subprocesses[k].id : k \in 1..Len(peer.subprocesses)}
\* the step leaves the tasks with these ids as they are
TasksKept(ids) == \A id \in ids : get_task(id, tasks') = get_task(id, tasks)
\* the step is one of the operation, or one of the other operation
OwnStep == consumed' # consumed \/ pc' # pc
PeerStep == peer' # peer

\* C27: two operations on the same progress bar modify only the tasks they
\* created themselves: no step of one operation changes a task of the other.
C27_OnlyOwnTasks ==
    [][(OwnStep => TasksKept(PeerIds)) /\ (PeerStep => TasksKept(OwnIds))]_vars

\* rclone_progress has been left: by return or by an exception
LeftProgress == pc \in {"done", "aborted"} /\ childState # "none"

\* C28: whenever rclone_progress is left with show_progress, the progress bar
\* has been stopped and the child has been waited for, also when the listener
\* raised in the read loop.
C28_ReleasedOnEveryPath ==
    (LeftProgress /\ params.show_progress) => (pbarState = "stopped" /\ pc = "done")

====
